---------------------------- MODULE Spec2Model ----------------------------
(***************************************************************************)
(* A model of rjeczalik/chunker: the MPEG frame header codec (frameLength),*)
(* the MP3 frame chunker (MP3Chunker) and the pooled complete-mode WAV     *)
(* chunker (WAVChunker of wav.go).  Bytes are the integers 0..255, a byte  *)
(* slice is a sequence of bytes, and one pull of Next is one action.       *)
(***************************************************************************)
EXTENDS Integers, Sequences, FiniteSets, TLC

VARIABLES
    hdr,      \* frame codec: the 4-byte header handed to frameLength
    flRet,    \* frame codec: what frameLength returned ([done, len, err])
    src,      \* the io.Reader: [stream, pos, end, closed]
    mp3,      \* the MP3Chunker struct
    ret,      \* what the last Next returned: [nil, chunk, err]
    out,      \* every chunk returned with a nil error, in emission order
    pulls,    \* number of Next calls made so far
    prevErr,  \* the chunker's err field when the last Next was entered
    cfg,      \* the arguments the chunker was constructed with
    wav,      \* the WAVChunker struct
    pool,     \* headerBufferPool and audioBufferPool: the buffers put back,
              \* and the identity the next allocation gets
    fleet,    \* several WAVChunkers that share the pools, each
              \* [st, c, r, puts, out, closedAt]
    mwav,     \* the WAVChunker struct of the chunker with an output mode, or
              \* of the streaming-only one: [legacy, targetSize, mode, ...]
    parse     \* a header parse alone: the input, and what parseWAVHeader
              \* returned and left: [in, done, len, err, pos]

vars == <<hdr, flRet, src, mp3, ret, out, pulls, prevErr, cfg, wav, pool, fleet, mwav, parse>>

(***************************************************************************)
(* Bounds of the model.                                                    *)
(***************************************************************************)
MaxPieces == 3
MaxPulls == 5

(***************************************************************************)
(* Go values.                                                              *)
(***************************************************************************)
NoErr == "nil"
EOF == "io.EOF"
ErrUnexpectedEOF == "io.ErrUnexpectedEOF"
ErrInvalidFrame == "ErrInvalidFrame"
ErrRead == "read error"
ErrClosed == "os.ErrClosed"

maxReservoir == 511
minFrameSize == 24
maxFrameSize == 1732

Min(a, b) == IF a < b THEN a ELSE b
Max(a, b) == IF a > b THEN a ELSE b

\* x & y on bytes, bit by bit.
RECURSIVE BitAnd(_, _)
BitAnd(x, y) ==
    IF x = 0 \/ y = 0 THEN 0
    ELSE (x % 2) * (y % 2) + 2 * BitAnd(x \div 2, y \div 2)

\* x >> n
Shr(x, n) == x \div (2 ^ n)

\* s[from:] of a Go slice (from is a 0-based offset).
From(s, from) == SubSeq(s, from + 1, Len(s))
\* s[:to]
Upto(s, to) == SubSeq(s, 1, to)

(***************************************************************************)
(* frameLength (mp3chunk.go:49-107).  The result is [len, err].            *)
(***************************************************************************)
bitratesV1 == <<0, 32, 40, 48, 56, 64, 80, 96, 112, 128, 160, 192, 224, 256, 320, 0>>
bitratesV2 == <<0, 8, 16, 24, 32, 40, 48, 56, 64, 80, 96, 112, 128, 144, 160, 0>>
sampleRatesV1 == <<44100, 48000, 32000, 0>>
sampleRatesV2 == <<22050, 24000, 16000, 0>>
sampleRatesV25 == <<11025, 12000, 8000, 0>>

Invalid == [len |-> 0, err |-> ErrInvalidFrame]

\* the sync test of line 55
SyncOK(h) == h[1] = 255 /\ BitAnd(h[2], 224) = 224

\* the version/layer test of line 62
VerLayerOK(mpegVer, layer) == ~(mpegVer = 1 \/ layer # 1)

\* lines 85-96: the multiplier of the version
MultiplierSwapped(mpegVer) == IF mpegVer = 3 THEN 72 ELSE 144
Multiplier(mpegVer) == IF mpegVer = 3 THEN 144 ELSE 72

\* lines 85-96: the tables of the version
BitratesOfV1Only(mpegVer) == bitratesV1
BitratesOf(mpegVer) == IF mpegVer = 3 THEN bitratesV1 ELSE bitratesV2
SampleRatesOf(mpegVer) ==
    IF mpegVer = 3 THEN sampleRatesV1
    ELSE IF mpegVer = 0 THEN sampleRatesV25 ELSE sampleRatesV2

frameLength(h) ==
    IF Len(h) # 4 THEN Invalid
    ELSE IF ~SyncOK(h) THEN Invalid
    ELSE
      LET mpegVer == BitAnd(Shr(h[2], 3), 3)
          layer == BitAnd(Shr(h[2], 1), 3)
          bitRateIdx == BitAnd(Shr(h[3], 4), 15)
          sampleRateIdx == BitAnd(Shr(h[3], 2), 3)
          emphasis == BitAnd(h[4], 3)
          padding == BitAnd(Shr(h[3], 1), 1)
          bitRate == BitratesOf(mpegVer)[bitRateIdx + 1] * 1000
          sampleRate == SampleRatesOf(mpegVer)[sampleRateIdx + 1]
      IN  IF ~VerLayerOK(mpegVer, layer) THEN Invalid
          ELSE IF bitRateIdx = 0 \/ bitRateIdx = 15 THEN Invalid
          ELSE IF sampleRateIdx = 3 THEN Invalid
          ELSE IF emphasis = 2 THEN Invalid
          ELSE IF bitRate = 0 \/ sampleRate = 0 THEN Invalid
          ELSE [len |-> (Multiplier(mpegVer) * bitRate) \div sampleRate + padding,
                err |-> NoErr]


(***************************************************************************)
(* The io.Reader the chunkers read from.  stream holds the bytes of the    *)
(* source, pos how many of them have been consumed, end what Read returns  *)
(* once they are exhausted (io.EOF or an I/O error), closed whether the    *)
(* caller has closed the source (every Read then fails).                   *)
(***************************************************************************)
NewReader(stream, end) ==
    [stream |-> stream, pos |-> 0, end |-> end, closed |-> FALSE]

\* What io.ReadFull makes of the reader's end: io.EOF only if no byte was read.
ShortReadErr(r, got) ==
    IF r.end = EOF THEN (IF got = 0 THEN EOF ELSE ErrUnexpectedEOF) ELSE r.end

\* io.ReadFull(c.r, buf) with len(buf) = n: [data, err, pos].
ReadFull(r, n) ==
    IF n = 0 THEN [data |-> <<>>, err |-> NoErr, pos |-> r.pos]
    ELSE IF r.closed THEN [data |-> <<>>, err |-> ErrClosed, pos |-> r.pos]
    ELSE IF Len(r.stream) - r.pos >= n
         THEN [data |-> SubSeq(r.stream, r.pos + 1, r.pos + n),
               err |-> NoErr, pos |-> r.pos + n]
    ELSE [data |-> From(r.stream, r.pos),
          err |-> ShortReadErr(r, Len(r.stream) - r.pos),
          pos |-> Len(r.stream)]

At(r, p) == [r EXCEPT !.pos = p]

(***************************************************************************)
(* MP3Chunker (mp3chunk.go:25-205).                                        *)
(***************************************************************************)
NewMP3ChunkerNoCap(chunkSize, reservoirSize) ==
    [targetSize |-> chunkSize, buf |-> <<0, 0, 0, 0>>, err |-> NoErr,
     reservoir |-> <<>>, reservoirCap |-> reservoirSize]
NewMP3Chunker(chunkSize, reservoirSize) ==
    [targetSize |-> chunkSize, buf |-> <<0, 0, 0, 0>>, err |-> NoErr,
     reservoir |-> <<>>,
     reservoirCap |-> IF reservoirSize > maxReservoir THEN maxReservoir
                      ELSE reservoirSize]

\* The bytes a buffer of 4 holds after data was read into buf[from:] (0-based).
Into(buf, from, data) ==
    [i \in 1..4 |-> IF i > from /\ i <= from + Len(data) THEN data[i - from]
                    ELSE buf[i]]

\* findNextFrame (lines 110-147): [nil, hdr, err, pos, buf].  The bytes that
\* are not 0xff are read one at a time into buf[0] and skipped (lines 113-124),
\* so the scan continues at the first 0xff at or after the cursor.
RECURSIVE findNextFrame(_, _)
findNextFrame(r, buf) ==
    LET syncs == {i \in (r.pos + 1)..Len(r.stream) : r.stream[i] = 255}
    IN  IF r.closed \/ syncs = {}
        THEN LET rest == IF r.closed THEN r ELSE At(r, Len(r.stream))
                 rd == ReadFull(rest, 1)
             IN  [nil |-> TRUE, hdr |-> <<>>, err |-> rd.err, pos |-> rd.pos,
                  buf |-> IF rest.pos > r.pos
                          THEN Into(buf, 0, <<r.stream[rest.pos]>>) ELSE buf]
        ELSE LET i == CHOOSE k \in syncs : \A j \in syncs : k <= j
                 b1 == Into(buf, 0, <<255>>)
                 rd == ReadFull(At(r, i), 3)
                 b == Into(b1, 1, rd.data)
             IN  IF rd.err # NoErr
                 THEN [nil |-> TRUE, hdr |-> <<>>, err |-> rd.err, pos |-> rd.pos,
                       buf |-> b]
                 ELSE IF BitAnd(b[2], 224) = 224 /\ frameLength(b).err = NoErr
                 THEN [nil |-> FALSE, hdr |-> b, err |-> NoErr, pos |-> rd.pos,
                       buf |-> b]
                 ELSE findNextFrame(At(r, rd.pos), <<b[2], b[3], b[4], b[4]>>)

\* finalize (lines 198-205): the reservoir kept for the next chunk.
finalize(chunk, reservoirCap) ==
    IF Len(chunk) > reservoirCap
    THEN From(chunk, Len(chunk) - reservoirCap)
    ELSE chunk

\* line 151: the latch
LatchedNever(c) == FALSE
Latched(c) == c.err # NoErr

\* lines 165 and 183: is there a frame beyond the reservoir to flush?
HasFrames(chunk, c) == Len(chunk) > Len(c.reservoir)

\* line 190: the frame appended to the chunk
AppendFrameBodyOnly(chunk, frame) == chunk \o From(frame, 4)
AppendFrame(chunk, frame) == chunk \o frame

\* The loop of Next (lines 160-192), entered with the chunk so far.  The
\* result is [c, pos, nil, chunk, err]: the chunker, the reader's cursor and
\* the values returned.
RECURSIVE readFrames(_, _, _, _)
readFrames(c, r, chunk, remaining) ==
    IF remaining <= 0
    THEN [c |-> [c EXCEPT !.reservoir = finalize(chunk, c.reservoirCap)],
          pos |-> r.pos, nil |-> Len(chunk) = 0, chunk |-> chunk, err |-> NoErr]
    ELSE
      LET f == findNextFrame(r, c.buf)
          flush(e, p, b) ==
              IF HasFrames(chunk, c)
              THEN [c |-> [c EXCEPT !.err = e, !.buf = b,
                                    !.reservoir = finalize(chunk, c.reservoirCap)],
                    pos |-> p, nil |-> FALSE, chunk |-> chunk, err |-> NoErr]
              ELSE [c |-> [c EXCEPT !.err = e, !.buf = b],
                    pos |-> p, nil |-> TRUE, chunk |-> <<>>, err |-> e]
      IN  IF f.err # NoErr THEN flush(f.err, f.pos, f.buf)
          ELSE
            LET fl == frameLength(f.hdr)
                body == ReadFull(At(r, f.pos), fl.len - 4)
            IN  IF fl.err # NoErr
                THEN [c |-> [c EXCEPT !.err = fl.err, !.buf = f.buf],
                      pos |-> f.pos, nil |-> TRUE, chunk |-> <<>>, err |-> fl.err]
                ELSE IF body.err # NoErr THEN flush(body.err, body.pos, f.buf)
                ELSE readFrames([c EXCEPT !.buf = f.buf], At(r, body.pos),
                                AppendFrame(chunk, f.hdr \o body.data),
                                remaining - fl.len)

\* MP3Chunker.Next (lines 150-195)
mp3Next(c, r) ==
    IF Latched(c)
    THEN [c |-> c, pos |-> r.pos, nil |-> TRUE, chunk |-> <<>>, err |-> c.err]
    ELSE readFrames(c, r, c.reservoir, c.targetSize - Len(c.reservoir))


(***************************************************************************)
(* The pooled WAVChunker (wav.go).  A Go slice is [id, len, mem]: the      *)
(* identity of its backing array (0 for a nil slice), its length, and the  *)
(* contents of the backing array up to its capacity.                       *)
(***************************************************************************)
defaultChunkSize == 8192
maxChunkSize == 1048576
maxHeaderSize == 8388608
minChunkSize == 1024

ErrNoRIFF == "not a valid WAV file: missing RIFF signature"
ErrNoWAVE == "not a valid WAV file: missing WAVE signature"
ErrHeaderTooLarge == "wav header too large"
ErrChunkTooLarge == "chunk size too large"
Panic == "panic: slice bounds out of range"

Zeros(n) == [i \in 1..n |-> 0]

\* A backing array of cap bytes: the first Len(bytes) of them are listed,
\* every byte after them equals fill.
Array(cap, fill) == [bytes |-> <<>>, fill |-> fill, cap |-> cap]
\* the first n bytes of an array
ArrayBytes(mem, n) ==
    IF n <= Len(mem.bytes) THEN SubSeq(mem.bytes, 1, n)
    ELSE mem.bytes \o [i \in 1..(n - Len(mem.bytes)) |-> mem.fill]

NilSlice == [id |-> 0, len |-> 0, mem |-> Array(0, 0)]
Bytes(s) == ArrayBytes(s.mem, s.len)
Cap(s) == s.mem.cap

\* copy(dst[off:], data) for a dst that is long enough
Overlay(dst, off, data) ==
    SubSeq(dst, 1, off) \o data \o SubSeq(dst, off + Len(data) + 1, Len(dst))

\* copy(mem[off:], data) for an array that is long enough
ArrayWrite(mem, off, data) ==
    [mem EXCEPT !.bytes = IF Len(data) = 0 THEN @
                          ELSE IF off + Len(data) >= Len(@)
                          THEN ArrayBytes(mem, off) \o data
                          ELSE Overlay(@, off, data)]

\* append(s, data...): in place while the capacity lasts, else into a new
\* backing array (identity newId) of at least twice the capacity.
SliceAppend(s, data, newId) ==
    IF Len(data) = 0 THEN s
    ELSE IF s.len + Len(data) <= Cap(s)
    THEN [id |-> s.id, len |-> s.len + Len(data),
          mem |-> ArrayWrite(s.mem, s.len, data)]
    ELSE [id |-> newId, len |-> s.len + Len(data),
          mem |-> [bytes |-> Bytes(s) \o data, fill |-> 0,
                   cap |-> Max(2 * Cap(s), s.len + Len(data))]]

\* "RIFF", "WAVE", "data" as bytes
idRIFF == <<82, 73, 70, 70>>
idWAVE == <<87, 65, 86, 69>>
idData == <<100, 97, 116, 97>>

\* compareID (lines 36-41)
compareID(data, id) ==
    IF Len(data) < 4 \/ Len(id) # 4 THEN FALSE
    ELSE data[1] = id[1] /\ data[2] = id[2] /\ data[3] = id[3] /\ data[4] = id[4]

\* writeUint32LE (lines 113-120).  The lengths written are non-negative and
\* below 2^31, so the conversion to uint32 keeps them.
writeUint32LE(value) ==
    <<value % 256, (value \div 256) % 256, (value \div 65536) % 256,
      (value \div 16777216) % 256>>

\* readUint32LE (lines 123-125)
readUint32LE(data) ==
    data[1] + data[2] * 256 + data[3] * 65536 + data[4] * 16777216

\* isErrNotEOF (lines 330-332)
isErrNotEOF(err) == err # NoErr /\ err # EOF /\ err # ErrUnexpectedEOF

\* NewWAVChunker (lines 64-76) with the buffers the pools handed out
NewWAVChunker(header, audio) ==
    [targetSize |-> defaultChunkSize, err |-> NoErr, headerSent |-> FALSE,
     dataStart |-> 0, bytesRead |-> 0, dataSize |-> 0, dataSizeOffset |-> 0,
     closed |-> FALSE, riff |-> Zeros(12), chunk |-> Zeros(8),
     header |-> header, audio |-> audio, padding |-> <<0>>]

\* resetAudioBuffer (lines 92-97).  m is the chunker with the pools: [c, pool].
resetAudioBufferKept(m) ==
    IF m.c.audio.id # 0 THEN [m EXCEPT !.pool.audio = Append(@, m.c.audio)] ELSE m
resetAudioBuffer(m) ==
    IF m.c.audio.id # 0
    THEN [m EXCEPT !.c.audio = NilSlice, !.pool.audio = Append(@, m.c.audio)]
    ELSE m

\* resetHeaderBuffer (lines 99-104)
resetHeaderBuffer(m) ==
    IF m.c.header.id # 0
    THEN [m EXCEPT !.c.header = NilSlice, !.pool.header = Append(@, m.c.header)]
    ELSE m

\* reset (lines 79-90)
resetUnguarded(m) == resetHeaderBuffer(resetAudioBuffer([m EXCEPT !.c.closed = TRUE]))
reset(m) ==
    IF m.c.closed THEN m
    ELSE resetHeaderBuffer(resetAudioBuffer([m EXCEPT !.c.closed = TRUE]))

\* c.reset(); c.err = err (lines 258-259, 272-273, 307-308, 321-322)
resetWith(m, err) == [reset(m) EXCEPT !.c.err = err]

\* the bytes of a fixed buffer after a read of data into it
ReadInto(buf, data) == Overlay(buf, 0, data)

\* c.header = h, where h is the result of an append: a new backing array
\* takes the next identity.
headerGrown(m, h) ==
    [m EXCEPT !.c.header = h,
              !.pool.nextId = IF h.id # m.c.header.id THEN @ + 1 ELSE @]

\* c.header = append(c.header, data...) (lines 156, 176, 202, 211)
headerAppend(m, data) == headerGrown(m, SliceAppend(m.c.header, data, m.pool.nextId))

\* line 160: the cap on the accumulated header
HeaderTooLarge(c) == c.header.len > maxHeaderSize

\* line 189: the cap on a non-data chunk
ChunkTooLargeNever(chunkSize) == FALSE
ChunkTooLarge(chunkSize) == chunkSize > maxChunkSize

\* what parseWAVHeader leaves and returns: [c, pool, pos, err]
parseReturn(m, pos, err) == [c |-> m.c, pool |-> m.pool, pos |-> pos, err |-> err]

RECURSIVE parseChunks(_, _)

\* lines 207-213: after the read of the pad byte of an odd chunk
padRead(m, r, pad) ==
    IF isErrNotEOF(pad.err) THEN parseReturn(m, pad.pos, pad.err)
    ELSE IF Len(pad.data) = 1
    THEN parseChunks(headerAppend(m, m.c.padding), At(r, pad.pos))
    ELSE parseChunks(m, At(r, pad.pos))

\* line 206: the pad byte is read into c.padding
readPad(m, r, pad) == padRead([m EXCEPT !.c.padding = ReadInto(@, pad.data)], r, pad)

\* lines 195-213: after the read of the chunk's data
chunkDataRead(m, r, chunkSize, body) ==
    IF body.err # NoErr THEN parseReturn(m, body.pos, body.err)
    ELSE IF chunkSize % 2 = 1
    THEN readPad(headerAppend(m, body.data), At(r, body.pos),
                 ReadFull(At(r, body.pos), 1))
    ELSE parseChunks(headerAppend(m, body.data), At(r, body.pos))

\* lines 178-194: after the chunk header is appended to c.header
chunkHeaderKept(m, r, isDataChunk, chunkSize) ==
    IF isDataChunk
    THEN parseReturn([m EXCEPT !.c.dataSize = chunkSize,
                               !.c.dataStart = m.c.header.len,
                               !.c.dataSizeOffset = m.c.header.len - 4,
                               !.c.bytesRead = m.c.header.len],
                     r.pos, NoErr)
    ELSE IF ChunkTooLarge(chunkSize) THEN parseReturn(m, r.pos, ErrChunkTooLarge)
    ELSE chunkDataRead(m, r, chunkSize, ReadFull(r, chunkSize))

\* lines 165-176: after the read of the 8-byte chunk header into c.chunk
chunkHeaderRead(m, r, rd) ==
    IF rd.err # NoErr THEN parseReturn(m, rd.pos, rd.err)
    ELSE chunkHeaderKept(headerAppend(m, m.c.chunk), At(r, rd.pos),
                         compareID(SubSeq(m.c.chunk, 1, 4), idData),
                         readUint32LE(SubSeq(m.c.chunk, 5, 8)))

\* line 164: the chunk header is read into c.chunk
readChunkHeader(m, r, rd) ==
    chunkHeaderRead([m EXCEPT !.c.chunk = ReadInto(@, rd.data)], r, rd)

\* The chunk loop of parseWAVHeader (lines 159-214)
parseChunks(m, r) ==
    IF HeaderTooLarge(m.c) THEN parseReturn(m, r.pos, ErrHeaderTooLarge)
    ELSE readChunkHeader(m, r, ReadFull(r, 8))

\* lines 139-156: after the read of the 12-byte prologue into c.riff
riffReadAnyForm(m, r, rd) ==
    IF rd.err # NoErr THEN parseReturn(m, rd.pos, rd.err)
    ELSE IF ~compareID(SubSeq(m.c.riff, 1, 4), idRIFF)
    THEN parseReturn(m, rd.pos, ErrNoRIFF)
    ELSE parseChunks(headerAppend(m, m.c.riff), At(r, rd.pos))
riffRead(m, r, rd) ==
    IF rd.err # NoErr THEN parseReturn(m, rd.pos, rd.err)
    ELSE IF ~compareID(SubSeq(m.c.riff, 1, 4), idRIFF)
    THEN parseReturn(m, rd.pos, ErrNoRIFF)
    ELSE IF ~compareID(SubSeq(m.c.riff, 9, 12), idWAVE)
    THEN parseReturn(m, rd.pos, ErrNoWAVE)
    ELSE parseChunks(headerAppend(m, m.c.riff), At(r, rd.pos))

\* line 138: the prologue is read into c.riff
readRiff(m, r, rd) == riffRead([m EXCEPT !.c.riff = ReadInto(@, rd.data)], r, rd)

\* parseWAVHeader (lines 133-215): [c, pool, pos, err]
parseWAVHeaderStale(m, r) == readRiff(m, r, ReadFull(r, 12))
parseWAVHeader(m, r) == readRiff([m EXCEPT !.c.header.len = 0], r, ReadFull(r, 12))

\* line 239: the RIFF size of a chunk of totalLen bytes
RiffSize(totalLen) == totalLen - 8

\* createCompleteWAVFile (lines 219-247): [nil, chunk, panic]
createCompleteWAVFile(c, audioData) ==
    IF Len(audioData) = 0 THEN [nil |-> TRUE, chunk |-> <<>>, panic |-> FALSE]
    ELSE
      LET headerLen == c.header.len
          audioLen == Len(audioData)
          totalLen == headerLen + audioLen
          r1 == Overlay(Zeros(totalLen), 0, Bytes(c.header))
          r2 == Overlay(r1, c.dataSizeOffset, writeUint32LE(audioLen))
          r3 == Overlay(r2, 4, writeUint32LE(RiffSize(totalLen)))
          r4 == Overlay(r3, headerLen, audioData)
      IN  IF c.dataSizeOffset < 0 \/ c.dataSizeOffset + 4 > totalLen \/ totalLen < 8
          THEN [nil |-> TRUE, chunk |-> <<>>, panic |-> TRUE]
          ELSE [nil |-> FALSE, chunk |-> r4, panic |-> FALSE]

\* line 266
AudioDataLeft(c) == c.dataSize - (c.bytesRead - c.dataStart)

\* lines 283-286: the audio bytes wanted for one chunk
ReadSize(c) ==
    IF c.targetSize - c.header.len <= 0 THEN minChunkSize
    ELSE c.targetSize - c.header.len

\* lines 293-302: the audio buffer made large enough for readSize
growAudio(m, readSize) ==
    IF m.c.audio.len < readSize
    THEN IF Cap(m.c.audio) >= readSize
         THEN [m EXCEPT !.c.audio.len = readSize]
         ELSE [resetAudioBuffer(m) EXCEPT
                  !.c.audio = [id |-> m.pool.nextId, len |-> readSize,
                               mem |-> Array(readSize, 0)],
                  !.pool.nextId = @ + 1]
    ELSE m

\* what Next leaves and returns: [c, pool, pos, nil, chunk, err]
nextReturn(m, pos, nil, chunk, err) ==
    [c |-> m.c, pool |-> m.pool, pos |-> pos, nil |-> nil, chunk |-> chunk,
     err |-> err]

\* lines 270-278: after the read of the data chunk's pad byte
dataPadRead(m, pad) ==
    IF isErrNotEOF(pad.err)
    THEN nextReturn(resetWith(m, pad.err), pad.pos, TRUE, <<>>, pad.err)
    ELSE nextReturn(reset(m), pad.pos, TRUE, <<>>, EOF)

\* lines 269-270: the pad byte of an odd data chunk is read into c.padding
readDataPad(m, pad) == dataPadRead([m EXCEPT !.c.padding = ReadInto(@, pad.data)], pad)

\* lines 269-270: the read that happens when the data size is odd
DataPadSkipped(c, r) == [data |-> <<>>, err |-> NoErr, pos |-> r.pos]
DataPad(c, r) ==
    IF c.dataSize % 2 = 1 THEN ReadFull(r, 1)
    ELSE [data |-> <<>>, err |-> NoErr, pos |-> r.pos]

\* lines 316-327: chunk := c.createCompleteWAVFile(audioData) and the return
chunkMade(m, rd, made) ==
    IF made.panic THEN nextReturn(m, rd.pos, TRUE, <<>>, Panic)
    ELSE IF rd.err = EOF \/ rd.err = ErrUnexpectedEOF
    THEN nextReturn(resetWith(m, EOF), rd.pos, made.nil, made.chunk, NoErr)
    ELSE nextReturn(m, rd.pos, made.nil, made.chunk, NoErr)

\* lines 312-316: audioData := c.audio[:n]
makeChunk(m, rd) ==
    chunkMade(m, rd,
              createCompleteWAVFile(m.c, ArrayBytes(m.c.audio.mem, Len(rd.data))))

\* lines 306-312: after the read of the audio into c.audio
audioRead(m, rd) ==
    IF rd.err # NoErr /\ rd.err # EOF
    THEN nextReturn(resetWith(m, rd.err), rd.pos, TRUE, <<>>, rd.err)
    ELSE makeChunk([m EXCEPT !.c.bytesRead = @ + Len(rd.data)], rd)

\* line 305: io.ReadFull(c.r, c.audio[:readSize])
readAudio(m, rd) == audioRead([m EXCEPT !.c.audio.mem = ArrayWrite(@, 0, rd.data)], rd)

\* lines 288-305 for a settled readSize
readSized(m, r, readSize) == readAudio(growAudio(m, readSize), ReadFull(r, readSize))

\* The part of Next after the header is known (lines 265-328)
nextChunk(m, r) ==
    IF AudioDataLeft(m.c) <= 0 THEN readDataPad(m, DataPad(m.c, r))
    ELSE readSized(m, r, Min(ReadSize(m.c), AudioDataLeft(m.c)))

\* lines 257-263: after parseWAVHeader returned p
headerParsed(p, r) ==
    IF p.err # NoErr
    THEN nextReturn(resetWith(p, p.err), p.pos, TRUE, <<>>, p.err)
    ELSE nextChunk([c |-> [p.c EXCEPT !.headerSent = TRUE], pool |-> p.pool],
                   At(r, p.pos))

\* WAVChunker.Next (lines 250-328): [c, pool, pos, nil, chunk, err]
wavNext(m, r) ==
    IF m.c.err # NoErr THEN nextReturn(m, r.pos, TRUE, <<>>, m.c.err)
    ELSE IF ~m.c.headerSent THEN headerParsed(parseWAVHeader(m, r), r)
    ELSE nextChunk(m, r)

(***************************************************************************)
(* Inputs.  An MP3 stream is a concatenation of at most MaxPieces pieces:  *)
(* complete frames, junk with false syncs, a truncated frame, a lone sync  *)
(* byte.                                                                   *)
(***************************************************************************)
\* A complete frame: the header and a body of frameLength(h)-4 bytes, none 0xff.
Frame(h, seed) ==
    h \o [i \in 1..(frameLength(h).len - 4) |-> (seed + 3 * i) % 251]

\* MPEG-2 Layer III, 8 kbit/s, 24 kHz, padded: 25 bytes
hdrSmall == <<255, 242, 22, 0>>
\* MPEG-1 Layer III, 192 kbit/s, 44.1 kHz: 626 bytes
hdrLarge == <<255, 250, 176, 0>>

Piece(p) ==
    CASE p = "small" -> Frame(hdrSmall, 1)
      [] p = "large" -> Frame(hdrLarge, 2)
      [] p = "junk" -> <<0, 255, 1, 2, 3, 255, 250, 0, 0, 7>>
      [] p = "cut" -> Upto(Frame(hdrSmall, 5), 9)
      [] p = "sync" -> <<255>>

PieceNames == {"small", "large", "junk", "cut", "sync"}

RECURSIVE Concat(_)
Concat(ps) == IF ps = <<>> THEN <<>> ELSE Piece(Head(ps)) \o Concat(Tail(ps))

PieceLists == UNION {[1..n -> PieceNames] : n \in 0..MaxPieces}

ChunkSizes == {0, 30, 60, 600}
ReservoirSizes == {0, 10, 40, 2048}
SourceEnds == {EOF, ErrRead}

\* The 4-byte headers handed to frameLength: every value of the second and
\* third byte, a first byte that is or is not 0xff, every emphasis.
Headers ==
    {<<b0, b1, b2, b3>> : b0 \in {255, 254}, b1 \in (224..255) \cup {0, 127, 192, 223},
                          b2 \in {16 * i + 2 * j : i \in 0..15, j \in 0..7},
                          b3 \in {0, 1, 2, 3, 254}}

(***************************************************************************)
(* WAV inputs: two small files cut at every length, and files of the       *)
(* canonical 44-byte header with thousands of audio bytes.                 *)
(***************************************************************************)
\* a 4-byte little-endian size field of the input
SizeField(v) == <<v % 256, (v \div 256) % 256, (v \div 65536) % 256, v \div 16777216>>
RiffFile(body) == idRIFF \o SizeField(4 + Len(body)) \o idWAVE \o body
RiffChunk(id, size, payload) == id \o SizeField(size) \o payload
\* n audio bytes
Audio(n) == [i \in 1..n |-> (i * 37 + 11) % 256]
\* "fmt " and 16 bytes: PCM, mono, 44100 Hz, 16 bit
FmtChunk ==
    RiffChunk(<<102, 109, 116, 32>>, 16,
              <<1, 0, 1, 0, 68, 172, 0, 0, 136, 88, 1, 0, 2, 0, 16, 0>>)
\* "LIST" with an odd payload and its pad byte
ListChunk == RiffChunk(<<76, 73, 83, 84>>, 3, <<9, 8, 7>>) \o <<0>>
\* a data chunk declaring size bytes and holding have of them
DataChunk(size, have) == RiffChunk(idData, size, Audio(have))
\* a "LIST" chunk of n zero bytes, n even
Filler(n) == RiffChunk(<<76, 73, 83, 84>>, n, Zeros(n))

WavFile(f) ==
    CASE f = "odd" ->
           RiffFile(FmtChunk \o DataChunk(5, 5) \o <<0>>
                      \o RiffChunk(<<76, 73, 83, 84>>, 2, <<1, 2>>))
      [] f = "list" -> RiffFile(ListChunk \o FmtChunk \o DataChunk(4, 4))
      [] f = "scenario" -> RiffFile(FmtChunk \o DataChunk(20000, 20000))
      [] f = "oddlarge" -> RiffFile(FmtChunk \o DataChunk(8149, 8149) \o <<0>>)
      [] f = "exact" -> RiffFile(FmtChunk \o DataChunk(8148, 8148))
      [] f = "short" -> RiffFile(FmtChunk \o DataChunk(20000, 8148))
      [] f = "shorter" -> RiffFile(FmtChunk \o DataChunk(20000, 9000))
      [] f = "stream" -> RiffFile(FmtChunk \o DataChunk(20, 20))
      [] f = "oddlast" -> RiffFile(FmtChunk \o DataChunk(5, 5) \o <<0>>)
      [] f = "bighdr" ->
           RiffFile(RiffChunk(<<76, 73, 83, 84>>, 520, [i \in 1..520 |-> i % 256])
                      \o FmtChunk \o DataChunk(4, 4))
      [] f = "longhdr" ->
           RiffFile(RiffChunk(<<76, 73, 83, 84>>, 7400, [i \in 1..7400 |-> i % 256])
                      \o FmtChunk \o DataChunk(1500, 1500))
      [] f = "overcap" ->
           RiffFile(Filler(1048576) \o Filler(1048576) \o Filler(1048576)
                      \o Filler(1048576) \o Filler(1048576) \o Filler(1048576)
                      \o Filler(1048576) \o Filler(1048496) \o DataChunk(0, 0))
      [] f = "atcap" ->
           RiffFile(Filler(1048576) \o Filler(1048576) \o Filler(1048576)
                      \o Filler(1048576) \o Filler(1048576) \o Filler(1048576)
                      \o Filler(1048576) \o Filler(1048492) \o DataChunk(0, 0))
      [] f = "pastcap" ->
           RiffFile(Filler(1048576) \o Filler(1048576) \o Filler(1048576)
                      \o Filler(1048576) \o Filler(1048576) \o Filler(1048576)
                      \o Filler(1048576) \o Filler(1048576) \o DataChunk(0, 0))
      [] f = "huge" ->
           RiffFile(RiffChunk(<<76, 73, 83, 84>>, maxChunkSize + 1,
                              <<1, 2, 3, 4, 5, 6, 7, 8, 9, 10>>))
      [] f = "noriff" ->
           <<82, 73, 70, 88>> \o SizeField(40) \o idWAVE \o FmtChunk
             \o DataChunk(4, 4)
      [] f = "nowave" ->
           idRIFF \o SizeField(40) \o <<87, 65, 86, 88>> \o FmtChunk
             \o DataChunk(4, 4)

SmallFiles == {"odd", "list"}
LargeFiles ==
    {"scenario", "oddlarge", "exact", "short", "shorter", "oddlast", "bighdr",
     "longhdr", "huge", "noriff", "nowave"}

\* the inputs: a file and the number of its bytes the source delivers; the
\* small files are cut at every length, "oddlast" also before its pad byte
WavInputs ==
    {[file |-> f, cut |-> k] : f \in SmallFiles, k \in 0..60}
      \cup {[file |-> f, cut |-> 30000] : f \in LargeFiles}
      \cup {[file |-> "oddlast", cut |-> 49]}

\* the inputs of a header parse alone: those above, and three files whose
\* chunks before the data chunk add up to just below, exactly at and above
\* maxHeaderSize
ParseInputs ==
    WavInputs \cup {[file |-> f, cut |-> 9000000] : f \in {"overcap", "atcap", "pastcap"}}

WavStream(in) == Upto(WavFile(in.file), Min(in.cut, Len(WavFile(in.file))))

\* What the pools hand out at construction: new buffers (lines 20-22 and
\* 28-32), or buffers a previous chunker put back, with its bytes in them.
FreshHeader == [id |-> 1, len |-> 0, mem |-> Array(512, 0)]
FreshAudio == [id |-> 2, len |-> defaultChunkSize, mem |-> Array(defaultChunkSize, 0)]
UsedHeader == [id |-> 1, len |-> 44, mem |-> Array(512, 170)]
UsedAudio == [id |-> 2, len |-> defaultChunkSize,
              mem |-> Array(defaultChunkSize, 85)]

\* the chunkers that share the pools; "a" reads one of FleetFiles, "b" the
\* file "list"
Chunkers == {"a", "b"}
FleetFiles == {"list", "bighdr"}

\* sync.Pool.Get: the k-th buffer of the pool, or a new one when k = 0
PoolGet(bufs, k, fresh) == IF k = 0 THEN fresh ELSE bufs[k]
Without(bufs, k) == SubSeq(bufs, 1, k - 1) \o SubSeq(bufs, k + 1, Len(bufs))

\* the pools as one call sees them: what it puts back is collected here
Private(nextId) == [header |-> <<>>, audio |-> <<>>, nextId |-> nextId]
\* the Puts of one call in the order reset makes them (lines 85-86)
Puts(pl) ==
    [j \in 1..Len(pl.audio) |-> [to |-> "audio", buf |-> pl.audio[j]]]
      \o [j \in 1..Len(pl.header) |-> [to |-> "header", buf |-> pl.header[j]]]

\* a chunker not yet constructed, with the stream it will read
Unborn(stream) ==
    [st |-> "unborn", c |-> NewWAVChunker(NilSlice, NilSlice),
     r |-> NewReader(stream, EOF), puts |-> <<>>, out |-> <<>>, closedAt |-> -1]
NoFleet == [i \in Chunkers |-> Unborn(<<>>)]

(***************************************************************************)
(* The WAV chunker with an output mode (unnamed/part_003; part_002 is the  *)
(* same code without the reused buffers) and the streaming-only chunker it *)
(* replaced (mp3chunk.go lines 207-386).  Their audio reads are single     *)
(* calls of c.r.Read, which may deliver fewer bytes than asked for.        *)
(***************************************************************************)
WAVModeStreaming == 0
WAVModeComplete == 1
ErrUnknownMode == "unknown WAV chunk mode"

\* c.r.Read(buf) with len(buf) = n.  The reader delivers `short` bytes fewer
\* than it could, but at least one, and when `together` it reports its end
\* along with its last bytes instead of on the call after: [data, err, pos].
Read(r, n, short, together) ==
    IF n = 0 THEN [data |-> <<>>, err |-> NoErr, pos |-> r.pos]
    ELSE IF r.closed THEN [data |-> <<>>, err |-> ErrClosed, pos |-> r.pos]
    ELSE IF r.pos >= Len(r.stream) THEN [data |-> <<>>, err |-> r.end, pos |-> r.pos]
    ELSE [data |-> SubSeq(r.stream, r.pos + 1,
                          r.pos + Max(1, Min(n, Len(r.stream) - r.pos) - short)),
          err |-> IF together
                     /\ r.pos + Max(1, Min(n, Len(r.stream) - r.pos) - short)
                          = Len(r.stream)
                  THEN r.end ELSE NoErr,
          pos |-> r.pos + Max(1, Min(n, Len(r.stream) - r.pos) - short)]

\* NewWAVChunker(r, chunkSize, mode) (part_003 lines 47-57), and
\* NewWAVChunker(r, chunkSize) of mp3chunk.go lines 221-226 when legacy
NewModeWAVChunker(chunkSize, mode, legacy) ==
    [legacy |-> legacy, targetSize |-> chunkSize, mode |-> mode, err |-> NoErr,
     header |-> <<>>, headerSent |-> FALSE, dataStart |-> 0, bytesRead |-> 0,
     dataSize |-> 0]

\* what parseWAVHeader leaves and returns: [c, pos, err]
modeParseReturn(c, pos, err) == [c |-> c, pos |-> pos, err |-> err]

RECURSIVE modeParseChunks(_, _, _)

\* part_003 lines 145-153: the pad byte of an odd chunk
modePadRead(c, r, headerBuffer, pad) ==
    IF pad.err # NoErr /\ pad.err # EOF THEN modeParseReturn(c, pad.pos, pad.err)
    ELSE modeParseChunks(c, At(r, pad.pos), headerBuffer \o pad.data)

\* part_003 lines 133-145: the payload of a chunk that is not the data chunk
modeChunkDataRead(c, r, headerBuffer, chunkSize, rd) ==
    IF rd.err # NoErr THEN modeParseReturn(c, rd.pos, rd.err)
    ELSE IF chunkSize % 2 = 1
    THEN modePadRead(c, r, headerBuffer \o rd.data, ReadFull(At(r, rd.pos), 1))
    ELSE modeParseChunks(c, At(r, rd.pos), headerBuffer \o rd.data)

\* part_003 lines 108-134: the 8-byte chunk header
modeChunkHeaderRead(c, r, headerBuffer, rd) ==
    IF rd.err # NoErr THEN modeParseReturn(c, rd.pos, rd.err)
    ELSE IF compareID(SubSeq(rd.data, 1, 4), idData)
    THEN modeParseReturn([c EXCEPT !.dataSize = readUint32LE(SubSeq(rd.data, 5, 8)),
                                   !.header = headerBuffer \o rd.data,
                                   !.dataStart = Len(headerBuffer) + 8,
                                   !.bytesRead = Len(headerBuffer) + 8],
                         rd.pos, NoErr)
    ELSE modeChunkDataRead(c, r, headerBuffer \o rd.data,
                           readUint32LE(SubSeq(rd.data, 5, 8)),
                           ReadFull(At(r, rd.pos), readUint32LE(SubSeq(rd.data, 5, 8))))

\* part_003 lines 106-154: the loop over the chunks
modeParseChunks(c, r, headerBuffer) ==
    modeChunkHeaderRead(c, r, headerBuffer, ReadFull(r, 8))

\* part_003 lines 85-103: the prologue
modeRiffRead(c, r, rd) ==
    IF rd.err # NoErr THEN modeParseReturn(c, rd.pos, rd.err)
    ELSE IF ~compareID(SubSeq(rd.data, 1, 4), idRIFF)
    THEN modeParseReturn(c, rd.pos, ErrNoRIFF)
    ELSE IF ~compareID(SubSeq(rd.data, 9, 12), idWAVE)
    THEN modeParseReturn(c, rd.pos, ErrNoWAVE)
    ELSE modeParseChunks(c, At(r, rd.pos), rd.data)

\* parseWAVHeader (part_003 lines 80-155; mp3chunk.go lines 239-313)
modeParseWAVHeader(c, r) == modeRiffRead(c, r, ReadFull(r, 12))

\* createCompleteWAVFile (part_003 lines 158-182)
modeCreateCompleteWAVFile(c, audioData) ==
    SubSeq(c.header, 1, 4)
      \o writeUint32LE(Len(c.header) + Len(audioData) - 8)
      \o SubSeq(c.header, 9, Len(c.header) - 4)
      \o writeUint32LE(Len(audioData))
      \o audioData

\* what Next leaves and returns: [c, pos, nil, chunk, err]
modeReturn(c, pos, nil, chunk, err) ==
    [c |-> c, pos |-> pos, nil |-> nil, chunk |-> chunk, err |-> err]

\* part_003 lines 237-260: the chunk made of the bytes read, by mode
modeChunk(c, rd) ==
    IF c.mode = WAVModeStreaming
    THEN IF c.bytesRead = c.dataStart + Len(rd.data)
         THEN modeReturn(c, rd.pos, FALSE, c.header \o rd.data, NoErr)
         ELSE modeReturn(c, rd.pos, FALSE, rd.data, NoErr)
    ELSE IF c.mode = WAVModeComplete
    THEN modeReturn(c, rd.pos, FALSE, modeCreateCompleteWAVFile(c, rd.data), NoErr)
    ELSE modeReturn(c, rd.pos, TRUE, <<>>, ErrUnknownMode)

\* part_003 lines 225-235: after c.r.Read
modeAudioRead(c, rd) ==
    IF rd.err # NoErr
    THEN IF rd.err = EOF /\ Len(rd.data) = 0
         THEN modeReturn(c, rd.pos, TRUE, <<>>, EOF)
         ELSE modeReturn([c EXCEPT !.err = rd.err], rd.pos, TRUE, <<>>, rd.err)
    ELSE modeChunk([c EXCEPT !.bytesRead = @ + Len(rd.data)], rd)

\* part_003 lines 206-217
modeReadSize(c) ==
    Min(IF c.mode = WAVModeComplete
        THEN (IF c.targetSize - Len(c.header) <= 0 THEN 1024
              ELSE c.targetSize - Len(c.header))
        ELSE c.targetSize,
        AudioDataLeft(c))

\* part_003 lines 199-260: Next once the header is parsed
modeHeaderParsed(c, r, short, together) ==
    IF AudioDataLeft(c) <= 0 THEN modeReturn(c, r.pos, TRUE, <<>>, EOF)
    ELSE modeAudioRead(c, Read(r, modeReadSize(c), short, together))

\* part_003 lines 191-197
modeParsed(r, short, together, p) ==
    IF p.err # NoErr
    THEN modeReturn([p.c EXCEPT !.err = p.err], p.pos, TRUE, <<>>, p.err)
    ELSE modeHeaderParsed([p.c EXCEPT !.headerSent = TRUE], At(r, p.pos), short, together)

\* WAVChunker.Next (part_003 lines 185-261, part_002 lines 162-229)
modeNext(c, r, short, together) ==
    IF c.err # NoErr THEN modeReturn(c, r.pos, TRUE, <<>>, c.err)
    ELSE IF ~c.headerSent
    THEN modeParsed(r, short, together, modeParseWAVHeader(c, r))
    ELSE modeHeaderParsed(c, r, short, together)

\* mp3chunk.go lines 347-359: the first chunk, after c.r.Read
legacyFirstRead(c, rd) ==
    IF rd.err # NoErr /\ rd.err # EOF
    THEN modeReturn([c EXCEPT !.err = rd.err], rd.pos, TRUE, <<>>, rd.err)
    ELSE modeReturn([c EXCEPT !.bytesRead = @ + Len(rd.data)], rd.pos, FALSE,
                    c.header \o rd.data, NoErr)

\* mp3chunk.go lines 322-360: the first call
legacyParsed(r, short, together, p) ==
    IF p.err # NoErr
    THEN modeReturn([p.c EXCEPT !.err = p.err], p.pos, TRUE, <<>>, p.err)
    ELSE IF p.c.targetSize - Len(p.c.header) <= 0 \/ AudioDataLeft(p.c) <= 0
    THEN modeReturn([p.c EXCEPT !.headerSent = TRUE], p.pos, FALSE, p.c.header, NoErr)
    ELSE legacyFirstRead([p.c EXCEPT !.headerSent = TRUE],
                         Read(At(r, p.pos),
                              Min(p.c.targetSize - Len(p.c.header), AudioDataLeft(p.c)),
                              short, together))

\* mp3chunk.go lines 375-385: a later chunk, after c.r.Read
legacyLaterRead(c, rd) ==
    IF rd.err # NoErr
    THEN IF rd.err = EOF /\ Len(rd.data) = 0
         THEN modeReturn(c, rd.pos, TRUE, <<>>, EOF)
         ELSE modeReturn([c EXCEPT !.err = rd.err], rd.pos, TRUE, <<>>, rd.err)
    ELSE modeReturn([c EXCEPT !.bytesRead = @ + Len(rd.data)], rd.pos, FALSE,
                    rd.data, NoErr)

\* WAVChunker.Next of mp3chunk.go (lines 316-386)
legacyNext(c, r, short, together) ==
    IF c.err # NoErr THEN modeReturn(c, r.pos, TRUE, <<>>, c.err)
    ELSE IF ~c.headerSent
    THEN legacyParsed(r, short, together, modeParseWAVHeader(c, r))
    ELSE IF AudioDataLeft(c) <= 0 THEN modeReturn(c, r.pos, TRUE, <<>>, EOF)
    ELSE legacyLaterRead(c, Read(r, Min(c.targetSize, AudioDataLeft(c)), short, together))

\* the inputs of these chunkers: files whole and cut short, target sizes
\* below and above the 44-byte header, every mode and one that is none
ModeInputs ==
    {[file |-> f, cut |-> k] : f \in {"stream", "odd", "nowave"}, k \in {50, 100}}
ModeTargets == {8, 50, 100}
Modes == {WAVModeStreaming, WAVModeComplete, 2}
\* how many bytes fewer than possible a Read may deliver
Shorts == {0, 1, 3}
NoModeWAV == NewModeWAVChunker(0, WAVModeStreaming, FALSE)
NoParse == [in |-> [file |-> "", cut |-> 0], done |-> FALSE, len |-> 0,
            err |-> NoErr, pos |-> 0]

(***************************************************************************)
(* Initial states and actions.                                             *)
(***************************************************************************)
NoRet == [nil |-> TRUE, chunk |-> <<>>, err |-> NoErr]
NoFlRet == [done |-> FALSE, len |-> 0, err |-> NoErr]
NoCfg == [chunkSize |-> 0, reservoirSize |-> 0]
NoPool == [header |-> <<>>, audio |-> <<>>, nextId |-> 1]

InitFrame ==
    /\ hdr \in Headers
    /\ flRet = NoFlRet
    /\ src = NewReader(<<>>, EOF)
    /\ mp3 = NewMP3Chunker(0, 0)
    /\ ret = NoRet
    /\ out = <<>>
    /\ pulls = 0
    /\ prevErr = NoErr
    /\ cfg = NoCfg
    /\ wav = NewWAVChunker(NilSlice, NilSlice)
    /\ pool = NoPool
    /\ parse = NoParse
    /\ mwav = NoModeWAV
    /\ fleet = NoFleet

\* one call of frameLength(hdr)
FrameLengthCall ==
    /\ ~flRet.done
    /\ flRet' = [done |-> TRUE, len |-> frameLength(hdr).len,
                 err |-> frameLength(hdr).err]
    /\ UNCHANGED <<hdr, src, mp3, ret, out, pulls, prevErr, cfg, wav, pool, fleet, mwav, parse>>

NextFrame == FrameLengthCall

SpecFrame == InitFrame /\ [][NextFrame]_vars

InitMP3 ==
    /\ hdr = <<0, 0, 0, 0>>
    /\ flRet = NoFlRet
    /\ \E ps \in PieceLists, end \in SourceEnds : src = NewReader(Concat(ps), end)
    /\ \E t \in ChunkSizes, rs \in ReservoirSizes :
          /\ cfg = [chunkSize |-> t, reservoirSize |-> rs]
          /\ mp3 = NewMP3Chunker(t, rs)
    /\ ret = NoRet
    /\ out = <<>>
    /\ pulls = 0
    /\ prevErr = NoErr
    /\ wav = NewWAVChunker(NilSlice, NilSlice)
    /\ pool = NoPool
    /\ parse = NoParse
    /\ mwav = NoModeWAV
    /\ fleet = NoFleet

\* one call of MP3Chunker.Next
MP3Next ==
    /\ pulls < MaxPulls
    /\ LET n == mp3Next(mp3, src)
       IN  /\ mp3' = n.c
           /\ src' = At(src, n.pos)
           /\ ret' = [nil |-> n.nil, chunk |-> n.chunk, err |-> n.err]
           /\ out' = IF n.err = NoErr THEN Append(out, n.chunk) ELSE out
    /\ pulls' = pulls + 1
    /\ prevErr' = mp3.err
    /\ UNCHANGED <<hdr, flRet, cfg, wav, pool, fleet, mwav, parse>>

NextMP3 == MP3Next

SpecMP3 == InitMP3 /\ [][NextMP3]_vars


InitWAV ==
    /\ hdr = <<0, 0, 0, 0>>
    /\ flRet = NoFlRet
    /\ \E in \in WavInputs, end \in SourceEnds : src = NewReader(WavStream(in), end)
    /\ mp3 = NewMP3Chunker(0, 0)
    /\ ret = NoRet
    /\ out = <<>>
    /\ pulls = 0
    /\ prevErr = NoErr
    /\ cfg = NoCfg
    /\ \E used \in BOOLEAN :
          wav = IF used THEN NewWAVChunker(UsedHeader, UsedAudio)
                ELSE NewWAVChunker(FreshHeader, FreshAudio)
    /\ pool = [header |-> <<>>, audio |-> <<>>, nextId |-> 3]
    /\ parse = NoParse
    /\ mwav = NoModeWAV
    /\ fleet = NoFleet

\* one call of WAVChunker.Next
WAVNext ==
    /\ pulls < MaxPulls
    /\ LET n == wavNext([c |-> wav, pool |-> pool], src)
       IN  /\ wav' = n.c
           /\ pool' = n.pool
           /\ src' = At(src, n.pos)
           /\ ret' = [nil |-> n.nil, chunk |-> n.chunk, err |-> n.err]
           /\ out' = IF n.err = NoErr THEN Append(out, n.chunk) ELSE out
    /\ pulls' = pulls + 1
    /\ prevErr' = wav.err
    /\ UNCHANGED <<hdr, flRet, mp3, cfg, fleet, mwav, parse>>

\* the caller closes the source (file.Close()): every later Read fails
SourceClose ==
    /\ ~src.closed
    /\ pulls < MaxPulls
    /\ src' = [src EXCEPT !.closed = TRUE]
    /\ UNCHANGED <<hdr, flRet, mp3, ret, out, pulls, prevErr, cfg, wav, pool, fleet, mwav, parse>>

\* WAVChunker.Close (lines 108-110), called by the owner at any time
WAVClose ==
    /\ LET m == reset([c |-> wav, pool |-> pool])
       IN  /\ wav' = m.c
           /\ pool' = m.pool
    /\ UNCHANGED <<hdr, flRet, src, mp3, ret, out, pulls, prevErr, cfg, fleet, mwav, parse>>

NextWAV == WAVNext \/ WAVClose \/ SourceClose

SpecWAV == InitWAV /\ [][NextWAV]_vars

(***************************************************************************)
(* Several pooled WAV chunkers, each driven by its own goroutine, sharing  *)
(* headerBufferPool and audioBufferPool.  The pool operations are the      *)
(* atomic steps: the two Gets of NewWAVChunker, and each Put of reset     *)
(* (together with the assignment of nil that follows it).  A call of Next  *)
(* or Close touches nothing shared but through its Puts, which are queued  *)
(* in puts and made one at a time.  st is "unborn", "header" (between the  *)
(* two Gets) or "live"; closedAt is the number of chunks emitted when a    *)
(* Close released the chunker, -1 if none did.                             *)
(***************************************************************************)
InitFleet ==
    /\ hdr = <<0, 0, 0, 0>>
    /\ flRet = NoFlRet
    /\ src = NewReader(<<>>, EOF)
    /\ mp3 = NewMP3Chunker(0, 0)
    /\ ret = NoRet
    /\ out = <<>>
    /\ pulls = 0
    /\ prevErr = NoErr
    /\ cfg = NoCfg
    /\ wav = NewWAVChunker(NilSlice, NilSlice)
    /\ \E used \in BOOLEAN :
          pool = [header |-> IF used THEN <<UsedHeader>> ELSE <<>>,
                  audio |-> IF used THEN <<UsedAudio>> ELSE <<>>,
                  nextId |-> 3]
    /\ \E f \in FleetFiles :
          fleet = [i \in Chunkers |->
                      Unborn(WavFile(IF i = "a" THEN f ELSE "list"))]
    /\ mwav = NoModeWAV
    /\ parse = NoParse

\* line 70: headerBufferPool.Get() hands out a buffer of the pool or, when
\* it finds none, a new one (lines 20-22)
FleetGetHeader(i) ==
    /\ fleet[i].st = "unborn"
    /\ \E k \in 0..Len(pool.header) :
          /\ fleet' = [fleet EXCEPT ![i].st = "header",
                                    ![i].c.header = PoolGet(pool.header, k,
                                        [FreshHeader EXCEPT !.id = pool.nextId])]
          /\ pool' = IF k = 0 THEN [pool EXCEPT !.nextId = @ + 1]
                     ELSE [pool EXCEPT !.header = Without(@, k)]
    /\ UNCHANGED <<hdr, flRet, src, mp3, ret, out, pulls, prevErr, cfg, wav, mwav, parse>>

\* line 71: audioBufferPool.Get() (new buffers: lines 28-32)
FleetGetAudio(i) ==
    /\ fleet[i].st = "header"
    /\ \E k \in 0..Len(pool.audio) :
          /\ fleet' = [fleet EXCEPT ![i].st = "live",
                                    ![i].c.audio = PoolGet(pool.audio, k,
                                        [FreshAudio EXCEPT !.id = pool.nextId])]
          /\ pool' = IF k = 0 THEN [pool EXCEPT !.nextId = @ + 1]
                     ELSE [pool EXCEPT !.audio = Without(@, k)]
    /\ UNCHANGED <<hdr, flRet, src, mp3, ret, out, pulls, prevErr, cfg, wav, mwav, parse>>

\* one call of Next on chunker i; its Puts are queued
FleetNext(i) ==
    /\ fleet[i].st = "live"
    /\ fleet[i].puts = <<>>
    /\ LET n == wavNext([c |-> fleet[i].c, pool |-> Private(pool.nextId)],
                        fleet[i].r)
       IN  /\ fleet' = [fleet EXCEPT
                           ![i].c = n.c,
                           ![i].r = At(@, n.pos),
                           ![i].puts = Puts(n.pool),
                           ![i].out = IF n.err = NoErr THEN Append(@, n.chunk)
                                      ELSE @]
           /\ pool' = [pool EXCEPT !.nextId = n.pool.nextId]
    /\ UNCHANGED <<hdr, flRet, src, mp3, ret, out, pulls, prevErr, cfg, wav, mwav, parse>>

\* one call of Close on chunker i (lines 108-110); its Puts are queued
FleetClose(i) ==
    /\ fleet[i].st = "live"
    /\ fleet[i].puts = <<>>
    /\ LET m == reset([c |-> fleet[i].c, pool |-> Private(pool.nextId)])
       IN  fleet' = [fleet EXCEPT
                        ![i].c = m.c,
                        ![i].puts = Puts(m.pool),
                        ![i].closedAt = IF fleet[i].c.closed THEN @
                                        ELSE Len(fleet[i].out)]
    /\ UNCHANGED <<hdr, flRet, src, mp3, ret, out, pulls, prevErr, cfg, wav, pool, mwav, parse>>

\* lines 94 and 101: one Put of chunker i reaches the pool
FleetPut(i) ==
    /\ fleet[i].puts # <<>>
    /\ fleet' = [fleet EXCEPT ![i].puts = Tail(@)]
    /\ pool' = IF Head(fleet[i].puts).to = "audio"
               THEN [pool EXCEPT !.audio = Append(@, Head(fleet[i].puts).buf)]
               ELSE [pool EXCEPT !.header = Append(@, Head(fleet[i].puts).buf)]
    /\ UNCHANGED <<hdr, flRet, src, mp3, ret, out, pulls, prevErr, cfg, wav, mwav, parse>>

NextFleet ==
    \E i \in Chunkers :
        \/ FleetGetHeader(i)
        \/ FleetGetAudio(i)
        \/ FleetNext(i)
        \/ FleetClose(i)
        \/ FleetPut(i)

SpecFleet == InitFleet /\ [][NextFleet]_vars

(***************************************************************************)
(* One WAV chunker with an output mode, or one of the earlier streaming-   *)
(* only type, pulled until MaxPulls by a caller whose reader may read      *)
(* short.                                                                  *)
(***************************************************************************)
InitMode ==
    /\ hdr = <<0, 0, 0, 0>>
    /\ flRet = NoFlRet
    /\ \E in \in ModeInputs, end \in SourceEnds : src = NewReader(WavStream(in), end)
    /\ mp3 = NewMP3Chunker(0, 0)
    /\ ret = NoRet
    /\ out = <<>>
    /\ pulls = 0
    /\ prevErr = NoErr
    /\ cfg = NoCfg
    /\ wav = NewWAVChunker(NilSlice, NilSlice)
    /\ pool = NoPool
    /\ parse = NoParse
    /\ fleet = NoFleet
    /\ \E size \in ModeTargets :
          \/ \E mode \in Modes : mwav = NewModeWAVChunker(size, mode, FALSE)
          \/ mwav = NewModeWAVChunker(size, WAVModeStreaming, TRUE)

\* what a call of Next leaves behind
ModeReturned(n) ==
    /\ mwav' = n.c
    /\ src' = At(src, n.pos)
    /\ ret' = [nil |-> n.nil, chunk |-> n.chunk, err |-> n.err]
    /\ out' = IF n.err = NoErr THEN Append(out, n.chunk) ELSE out
    /\ pulls' = pulls + 1
    /\ prevErr' = mwav.err
    /\ UNCHANGED <<hdr, flRet, mp3, cfg, wav, pool, fleet, parse>>

\* one call of Next of the chunker with an output mode
ModeNext ==
    /\ ~mwav.legacy
    /\ pulls < MaxPulls
    /\ \E short \in Shorts, together \in BOOLEAN :
          ModeReturned(modeNext(mwav, src, short, together))

\* one call of Next of the streaming-only chunker
LegacyNext ==
    /\ mwav.legacy
    /\ pulls < MaxPulls
    /\ \E short \in Shorts, together \in BOOLEAN :
          ModeReturned(legacyNext(mwav, src, short, together))

NextMode == ModeNext \/ LegacyNext

SpecMode == InitMode /\ [][NextMode]_vars

(***************************************************************************)
(* One call of parseWAVHeader on a new pooled chunker.                     *)
(***************************************************************************)
InitParse ==
    /\ hdr = <<0, 0, 0, 0>>
    /\ flRet = NoFlRet
    /\ src = NewReader(<<>>, EOF)
    /\ mp3 = NewMP3Chunker(0, 0)
    /\ ret = NoRet
    /\ out = <<>>
    /\ pulls = 0
    /\ prevErr = NoErr
    /\ cfg = NoCfg
    /\ wav = NewWAVChunker(NilSlice, NilSlice)
    /\ pool = NoPool
    /\ fleet = NoFleet
    /\ mwav = NoModeWAV
    /\ \E in \in ParseInputs : parse = [NoParse EXCEPT !.in = in]

\* parseWAVHeader, as the first Next of a new chunker calls it (line 257);
\* kept of it: the error it returned, the length of c.header and the position
\* of the source
ParseCall ==
    /\ ~parse.done
    /\ LET p == parseWAVHeader([c |-> NewWAVChunker(FreshHeader, FreshAudio),
                                pool |-> [header |-> <<>>, audio |-> <<>>,
                                          nextId |-> 3]],
                               NewReader(WavStream(parse.in), EOF))
       IN  parse' = [parse EXCEPT !.done = TRUE, !.len = p.c.header.len,
                                  !.err = p.err, !.pos = p.pos]
    /\ UNCHANGED <<hdr, flRet, src, mp3, ret, out, pulls, prevErr, cfg, wav, pool,
                   fleet, mwav>>

SpecParse == InitParse /\ [][ParseCall]_vars

(***************************************************************************)
(* Claims about the frame header codec (SpecFrame).                        *)
(***************************************************************************)
\* The header fields as the claim names them.
VersionBits(h) == (h[2] \div 8) % 4
LayerBits(h) == (h[2] \div 2) % 4
BitrateIndex(h) == h[3] \div 16
SampleRateIndex(h) == (h[3] \div 4) % 4
PaddingBit(h) == (h[3] \div 2) % 2
Emphasis(h) == h[4] % 4

C1_Accepted(h) ==
    /\ h[1] = 255
    /\ h[2] \div 32 = 7
    /\ VersionBits(h) # 1
    /\ LayerBits(h) = 1
    /\ BitrateIndex(h) \notin {0, 15}
    /\ SampleRateIndex(h) # 3
    /\ Emphasis(h) # 2

C1_Kbps(h) ==
    IF VersionBits(h) = 3
    THEN <<32, 40, 48, 56, 64, 80, 96, 112, 128, 160, 192, 224, 256, 320>>[BitrateIndex(h)]
    ELSE <<8, 16, 24, 32, 40, 48, 56, 64, 80, 96, 112, 128, 144, 160>>[BitrateIndex(h)]

C1_Hz(h) ==
    CASE VersionBits(h) = 3 -> <<44100, 48000, 32000>>[SampleRateIndex(h) + 1]
      [] VersionBits(h) = 2 -> <<22050, 24000, 16000>>[SampleRateIndex(h) + 1]
      [] VersionBits(h) = 0 -> <<11025, 12000, 8000>>[SampleRateIndex(h) + 1]

C1_Length(h) ==
    ((IF VersionBits(h) = 3 THEN 144 ELSE 72) * C1_Kbps(h) * 1000) \div C1_Hz(h)
        + PaddingBit(h)

\* C1: frameLength(h) returns a length exactly for the headers with sync
\* 0xFF + 3 bits, version not 01, layer 01, bitrate index not 0 or 15,
\* sample-rate index not 3 and emphasis not 2; the length is then
\* multiplier*bitrate*1000/sampleRate + padding (144 and the MPEG-1 tables
\* for version 11, 72 and the MPEG-2 / MPEG-2.5 tables otherwise); every
\* other header gets ErrInvalidFrame and length 0.
C1_FrameLengthContract ==
    flRet.done =>
        IF C1_Accepted(hdr)
        THEN flRet.err = NoErr /\ flRet.len = C1_Length(hdr)
        ELSE flRet.err = ErrInvalidFrame /\ flRet.len = 0

\* an accepted, padded MPEG-1 header has been measured
C1_Witness ==
    /\ flRet.done
    /\ hdr = <<255, 250, 178, 0>>
    /\ flRet.err = NoErr
    /\ flRet.len = 627

(***************************************************************************)
(* Claims about the MP3 chunker (SpecMP3).                                 *)
(***************************************************************************)
\* the effective reservoir capacity of the configuration
EffectiveCap == Min(cfg.reservoirSize, maxReservoir)

\* C2: the chunk sequence is never infinite.  The chunker is deterministic
\* and reads a finite stream, so the sequence is infinite exactly if some
\* pull returns a chunk and leaves the chunker and its source as they were:
\* every pull that returns a chunk must consume input or record the
\* terminal condition.
C2_ChunksAreFinite ==
    [][ret'.err = NoErr => (src'.pos > src.pos \/ mp3'.err # NoErr)]_vars

\* s is a concatenation of complete valid frames
RECURSIVE IsFrameSeq(_)
IsFrameSeq(s) ==
    \/ s = <<>>
    \/ /\ Len(s) >= 4
       /\ frameLength(Upto(s, 4)).err = NoErr
       /\ frameLength(Upto(s, 4)).len <= Len(s)
       /\ IsFrameSeq(From(s, frameLength(Upto(s, 4)).len))

\* the chunks with the carried-over reservoir bytes removed from every chunk
\* after the first, concatenated in emission order
RECURSIVE Dedup(_, _)
Dedup(chunks, n) ==
    IF n = 0 THEN <<>>
    ELSE IF n = 1 THEN chunks[1]
    ELSE Dedup(chunks, n - 1)
           \o From(chunks[n], Min(Min(Len(chunks[n - 1]), EffectiveCap), Len(chunks[n])))

\* C3: for a stream of complete valid frames and a target size above the
\* reservoir capacity, the de-duplicated concatenation of the chunks is the
\* part of the stream consumed so far, and the whole stream once the
\* chunker is exhausted.
C3_RoundTrip ==
    (IsFrameSeq(src.stream) /\ cfg.chunkSize > EffectiveCap) =>
        /\ Dedup(out, Len(out)) = Upto(src.stream, src.pos)
        /\ mp3.err # NoErr => Dedup(out, Len(out)) = src.stream

\* a stream of frames was emitted as two or more chunks with a carried-over
\* reservoir, and the chunker has reported end-of-stream
C3_Witness ==
    /\ IsFrameSeq(src.stream) /\ cfg.chunkSize > EffectiveCap
    /\ EffectiveCap > 0
    /\ Len(out) >= 2
    /\ ret.err = EOF
    /\ Dedup(out, Len(out)) = src.stream

\* C4: the stored reservoir never exceeds min(configured capacity, 511), and
\* every chunk after the first begins with exactly the last
\* min(len(previous chunk), C) bytes of the previous chunk.
C4_ReservoirCarry ==
    /\ Len(mp3.reservoir) <= EffectiveCap
    /\ \A i \in 2..Len(out) :
          LET k == Min(Len(out[i - 1]), EffectiveCap)
          IN  /\ Len(out[i]) >= k
              /\ Upto(out[i], k) = From(out[i - 1], Len(out[i - 1]) - k)

\* a capacity above 511 was configured, the first chunk is longer than 511
\* bytes and a second chunk carrying frames follows it
C4_Witness ==
    /\ cfg.reservoirSize > maxReservoir
    /\ Len(out) >= 2
    /\ Len(out[1]) > maxReservoir
    /\ Len(out[2]) > maxReservoir
    /\ Len(mp3.reservoir) = maxReservoir

\* C5: when the source ends during synchronization or inside a frame body
\* with at least one full frame accumulated, the pull returns the chunk with
\* a nil error (the terminal condition is recorded while a chunk is
\* returned) and the very next pull returns io.EOF.
C5_FlushThenEOF ==
    [][(src.end = EOF /\ ret.err = NoErr /\ mp3.err # NoErr) => ret'.err = EOF]_vars

\* C6: once a terminal condition is recorded, every later Next returns
\* (nil, that condition), reads nothing and leaves the reservoir unchanged.
C6_Latch ==
    [][mp3.err # NoErr =>
          /\ ret'.nil /\ ret'.err = mp3.err
          /\ src'.pos = src.pos
          /\ mp3' = mp3
          /\ out' = out]_vars

\* a Next was made on a chunker that had recorded a read error after
\* emitting a chunk
C6_Witness ==
    /\ prevErr = ErrRead
    /\ pulls >= 2
    /\ ret.err = ErrRead
    /\ Len(out) >= 1

(***************************************************************************)
(* Claims about the pooled WAV chunker (SpecWAV).                          *)
(***************************************************************************)
\* the 4-byte little-endian number at offset off of s
LE32(s, off) ==
    s[off + 1] + 256 * s[off + 2] + 65536 * s[off + 3] + 16777216 * s[off + 4]

\* C7: every chunk returned by Next is a WAV file whose little-endian
\* data-size field, at the recorded data-size offset (the last 4 bytes of the
\* header prefix), equals the number of audio bytes that follow the header in
\* the chunk, and whose RIFF size field at offset 4 equals the chunk's total
\* length minus 8.
C7_ChunkSizeFields ==
    (ret.err = NoErr /\ ~ret.nil) =>
        /\ wav.dataSizeOffset = wav.dataStart - 4
        /\ Len(ret.chunk) > wav.dataStart
        /\ LE32(ret.chunk, wav.dataSizeOffset) = Len(ret.chunk) - wav.dataStart
        /\ LE32(ret.chunk, 4) = Len(ret.chunk) - 8

\* the header prefix and the declared audio of the stream, once parsed
H == wav.dataStart
D == wav.dataSize

RECURSIVE AudioOf(_, _)
\* the audio slices (what follows the first h bytes) of chunks, concatenated
AudioOf(chunks, h) ==
    IF chunks = <<>> THEN <<>>
    ELSE From(Head(chunks), h) \o AudioOf(Tail(chunks), h)

\* C8: for a well-formed WAV whose header prefix has length H < 8192 and
\* whose D declared audio bytes are all in the stream, every emitted chunk
\* but the last has total length exactly 8192, and the audio slices of the
\* chunks, concatenated in emission order, are the payload: a prefix of it
\* while the iteration runs, all D bytes once Next has returned io.EOF.
C8_FixedSizeChunks ==
    (wav.headerSent /\ H < defaultChunkSize /\ Len(src.stream) >= H + D) =>
        /\ \A i \in 1..(Len(out) - 1) : Len(out[i]) = defaultChunkSize
        /\ \A i \in 1..Len(out) : Len(out[i]) > H
        /\ LET audio == AudioOf(out, H)
           IN  /\ Len(audio) <= D
               /\ audio = SubSeq(src.stream, H + 1, H + Len(audio))
               /\ ret.err = EOF => Len(audio) = D

RECURSIVE EndsBeforeData(_, _)
\* the stream ends at or after offset pos, which is where a chunk header
\* starts, before a data chunk is located
EndsBeforeData(stream, pos) ==
    IF Len(stream) < pos + 8 THEN TRUE
    ELSE IF SubSeq(stream, pos + 1, pos + 4) = <<100, 97, 116, 97>> THEN FALSE
    ELSE LET size == LE32(stream, pos + 4)
         IN  IF Len(stream) < pos + 8 + size THEN TRUE
             ELSE EndsBeforeData(stream, pos + 8 + size + (size % 2))

\* the stream ends during the prologue, a chunk header or a non-data
\* chunk's payload
Truncated == Len(src.stream) < 12 \/ EndsBeforeData(src.stream, 12)

\* C9: if the stream ends before any data chunk is located, the first pull
\* returns a fatal error that is not io.EOF.
C9_TruncationIsFatal ==
    (pulls = 1 /\ src.end = EOF /\ ~src.closed /\ Truncated) =>
        (ret.err # NoErr /\ ret.err # EOF)

\* C10: after a pull has returned io.EOF, every later pull returns io.EOF
\* and no chunk, whatever the source does on later reads.
C10_EOFIsFinal ==
    [][ret.err = EOF => (ret'.err = EOF /\ ret'.nil)]_vars


\* how many of the buffers put back into a pool are the array id
TimesIn(bufs, id) == Cardinality({i \in 1..Len(bufs) : bufs[i].id = id})

\* the header buffer put back is the array acquired at construction, or the
\* array append moved the header to when it outgrew the 512 bytes
HeaderReturned ==
    /\ Len(pool.header) = 1
    /\ pool.header[1].id = 1 \/ Cap(pool.header[1]) > 512

Holds(i) ==
    ({fleet[i].c.header.id, fleet[i].c.audio.id}
       \cup {fleet[i].puts[j].buf.id : j \in 1..Len(fleet[i].puts)}) \ {0}

\* the arrays that sit in the pools
PoolIds ==
    {pool.header[j].id : j \in 1..Len(pool.header)}
      \cup {pool.audio[j].id : j \in 1..Len(pool.audio)}

\* C12: under every interleaving of construction, Next and Close steps of
\* chunkers that share the pools, no buffer is held by two chunkers at the
\* same time, no buffer sits in a pool while a chunker still holds it, and no
\* buffer sits in the pools twice (a Get is matched by at most one Put).
C12_PoolSafety ==
    /\ \A i, j \in Chunkers : i # j => Holds(i) \cap Holds(j) = {}
    /\ \A i \in Chunkers : Holds(i) \cap PoolIds = {}
    /\ \A id \in PoolIds : TimesIn(pool.header, id) + TimesIn(pool.audio, id) = 1

\* chunker "b" was constructed with the audio buffer chunker "a" had read
\* into and put back
C12_Witness ==
    /\ fleet["a"].c.closed
    /\ fleet["a"].puts = <<>>
    /\ fleet["b"].st = "live"
    /\ fleet["b"].r.pos = 0
    /\ fleet["b"].c.audio.mem.fill = 0
    /\ fleet["b"].c.audio.mem.bytes # <<>>

IsPrefix(s, u) == Len(s) <= Len(u) /\ s = SubSeq(u, 1, Len(s))

\* C13: the chunk sequence is a function of the input bytes only: two
\* chunkers that read the same input and are driven the same way (released by
\* Close at the same point, if at all) emit the same chunks, whatever
\* buffers, new or recycled with stale length and contents, the pools handed
\* them and whatever the other chunker does meanwhile.
C13_PoolIndependence ==
    \A i, j \in Chunkers :
        (/\ fleet[i].r.stream = fleet[j].r.stream
         /\ fleet[i].closedAt = fleet[j].closedAt)
        => (IsPrefix(fleet[i].out, fleet[j].out) \/ IsPrefix(fleet[j].out, fleet[i].out))

\* both chunkers read the same file and emitted its chunk; "b" did so with
\* the recycled header buffer (stale length 44, stale bytes), "a" with a new
\* one, which it has put back
C13_Witness ==
    /\ fleet["a"].r.stream = fleet["b"].r.stream
    /\ fleet["a"].closedAt = -1 /\ fleet["b"].closedAt = -1
    /\ Len(fleet["a"].out) = 1 /\ Len(fleet["b"].out) = 1
    /\ fleet["b"].c.header.id = 1
    /\ fleet["b"].c.header.mem.fill = 170
    /\ \E k \in 1..Len(pool.header) : pool.header[k].mem.fill = 0


(***************************************************************************)
(* Claims about malformed and odd-sized WAV files (SpecWAV).               *)
(***************************************************************************)
\* the stream has the RIFF and WAVE tags of the prologue
HasRIFF == Len(src.stream) >= 12 /\ SubSeq(src.stream, 1, 4) = <<82, 73, 70, 70>>
HasWAVE == Len(src.stream) >= 12 /\ SubSeq(src.stream, 9, 12) = <<87, 65, 86, 69>>

\* the offset just after the 8-byte header of the first non-data chunk whose
\* declared size exceeds maxChunkSize, if the stream has one before its data
\* chunk; -1 otherwise
RECURSIVE OversizeAt(_, _)
OversizeAt(stream, pos) ==
    IF Len(stream) < pos + 8 THEN -1
    ELSE IF SubSeq(stream, pos + 1, pos + 4) = <<100, 97, 116, 97>> THEN -1
    ELSE LET size == LE32(stream, pos + 4)
         IN  IF size > maxChunkSize THEN pos + 8
             ELSE IF Len(stream) < pos + 8 + size THEN -1
             ELSE OversizeAt(stream, pos + 8 + size + (size % 2))

Oversize == IF HasRIFF /\ HasWAVE THEN OversizeAt(src.stream, 12) ELSE -1

\* every buffer in the pools and in the chunker is smaller than maxChunkSize
NoHugeBuffer ==
    /\ Cap(wav.header) <= maxChunkSize /\ Cap(wav.audio) <= maxChunkSize
    /\ \A k \in 1..Len(pool.header) : Cap(pool.header[k]) <= maxChunkSize
    /\ \A k \in 1..Len(pool.audio) : Cap(pool.audio[k]) <= maxChunkSize

\* C14: when a non-data chunk declares a size above maxChunkSize, the first
\* pull fails with an error (the size error, unless the source was closed
\* first) with nothing consumed beyond that chunk's 8-byte header and no
\* buffer of the declared size allocated; no chunk is ever emitted, and every
\* later pull returns the same error.
C14_OversizeChunkRejected ==
    /\ [](Oversize >= 0 =>
            /\ out = <<>>
            /\ src.pos <= Oversize
            /\ NoHugeBuffer
            /\ pulls > 0 =>
                  /\ ret.nil /\ ret.err # NoErr /\ ret.err # EOF
                  /\ wav.err = ret.err
                  /\ ret.err # ErrClosed =>
                        (ret.err = ErrChunkTooLarge /\ src.pos = Oversize))
    /\ [][(Oversize >= 0 /\ pulls > 0) => ret'.err = ret.err]_vars

\* the size error was returned by the first pull and again by a later one
C14_Witness ==
    /\ Oversize = 20
    /\ pulls >= 2
    /\ ret.err = ErrChunkTooLarge /\ prevErr = ErrChunkTooLarge
    /\ src.pos = 20
    /\ out = <<>>

\* C15: when bytes 0-3 of the stream are not "RIFF" or bytes 8-11 are not
\* "WAVE", the first pull returns an error (the format error, unless the
\* source was closed first), no chunk is ever emitted, nothing beyond the
\* 12-byte prologue is consumed, and every later pull returns the same error.
C15_BadPrologueRejected ==
    /\ []((Len(src.stream) >= 12 /\ ~(HasRIFF /\ HasWAVE)) =>
            /\ out = <<>>
            /\ src.pos <= 12
            /\ pulls > 0 =>
                  /\ ret.nil /\ ret.err # NoErr /\ ret.err # EOF
                  /\ wav.err = ret.err
                  /\ ret.err # ErrClosed =>
                        /\ src.pos = 12
                        /\ ret.err = IF HasRIFF THEN ErrNoWAVE ELSE ErrNoRIFF)
    /\ [][(Len(src.stream) >= 12 /\ ~(HasRIFF /\ HasWAVE) /\ pulls > 0)
             => ret'.err = ret.err]_vars

\* the WAVE tag is wrong: the format error came back twice
C15_Witness ==
    /\ HasRIFF /\ ~HasWAVE
    /\ pulls >= 2
    /\ ret.err = ErrNoWAVE /\ prevErr = ErrNoWAVE
    /\ src.pos = 12
    /\ out = <<>>

\* the header was parsed, the data size is odd and the data chunk is the
\* last one of the file, with its pad byte (pad = 1) or without it (pad = 0)
OddDataLast(pad) ==
    /\ wav.headerSent
    /\ wav.dataSize % 2 = 1
    /\ Len(src.stream) = wav.dataStart + wav.dataSize + pad
    /\ src.end = EOF

\* C16: for a file whose data chunk is last and of odd size, when Next
\* returns io.EOF the bytes consumed from the source are the whole file, pad
\* byte included; and when the pad byte is absent the pull made after the
\* last audio byte still returns io.EOF, not an error.
C16_OddDataPadConsumed ==
    [][(/\ pulls' = pulls + 1
        /\ ~src.closed
        /\ wav.err = NoErr
        /\ OddDataLast(0) \/ OddDataLast(1))
       => /\ ret'.err = EOF => src'.pos = Len(src.stream)
          /\ (wav.bytesRead - wav.dataStart >= wav.dataSize) => ret'.err = EOF]_vars

\* the pad byte was there: io.EOF came with all 50 bytes consumed, the pad
\* byte in c.padding
C16_Witness ==
    /\ OddDataLast(1)
    /\ ret.err = EOF
    /\ Len(out) = 1
    /\ ~src.closed
    /\ src.pos = Len(src.stream)
    /\ src.pos = wav.bytesRead + 1

\* the pad byte was absent: io.EOF all the same
C16_WitnessNoPad ==
    /\ OddDataLast(0)
    /\ ret.err = EOF
    /\ Len(out) = 1
    /\ ~src.closed
    /\ src.pos = wav.bytesRead


(***************************************************************************)
(* Claims about the WAV chunker with an output mode (SpecMode).            *)
(***************************************************************************)
\* the chunker with an output mode, in streaming mode
Streaming == ~mwav.legacy /\ mwav.mode = WAVModeStreaming

\* C17: in streaming mode the first chunk is the header prefix followed by at
\* most (target size - header length) audio bytes, so it fits the target
\* size whenever the header does, and every later chunk has at most
\* target-size bytes.
C17_FirstChunkFitsTarget ==
    (Streaming /\ Len(out) >= 1) =>
        /\ IsPrefix(mwav.header, out[1])
        /\ Len(out[1]) - Len(mwav.header) <= Max(0, mwav.targetSize - Len(mwav.header))
        /\ Len(mwav.header) <= mwav.targetSize => Len(out[1]) <= mwav.targetSize
        /\ \A k \in 2..Len(out) : Len(out[k]) <= mwav.targetSize

\* the audio bytes the chunks emitted so far carry: all their bytes after the
\* header prefix that opens the first
RECURSIVE Flatten(_)
Flatten(chunks) ==
    IF chunks = <<>> THEN <<>> ELSE Head(chunks) \o Flatten(Tail(chunks))

StreamedAudio == From(Flatten(out), Len(mwav.header))

\* the audio payload the data chunk declares
DeclaredAudio ==
    SubSeq(src.stream, mwav.dataStart + 1, mwav.dataStart + mwav.dataSize)

\* C18: in streaming mode, for a source that delivers the whole declared
\* payload in reads of any length and reports io.EOF after or together with
\* its last bytes, the audio of the chunks emitted up to io.EOF is the
\* declared payload, byte for byte.
C18_StreamingRoundTrip ==
    (/\ Streaming \/ mwav.legacy
     /\ mwav.headerSent
     /\ src.end = EOF
     /\ Len(src.stream) >= mwav.dataStart + mwav.dataSize
     /\ ret.err = EOF)
    => StreamedAudio = DeclaredAudio

\* C19: in the chunker with an output mode, once a pull has returned an error
\* other than io.EOF, every later pull returns that error and no chunk, and
\* consumes nothing from the source.
C19_ErrorsLatch ==
    [][(~mwav.legacy /\ pulls > 0 /\ ret.err # NoErr /\ ret.err # EOF)
          => (ret'.err = ret.err /\ ret'.nil /\ src'.pos = src.pos)]_vars


(***************************************************************************)
(* The number of MP3 chunks (SpecMP3).                                     *)
(***************************************************************************)
\* the stream from pos on is a run of whole valid frames
RECURSIVE ValidFrames(_, _)
ValidFrames(stream, pos) ==
    IF pos = Len(stream) THEN TRUE
    ELSE /\ Len(stream) >= pos + 4
         /\ stream[pos + 1] = 255
         /\ BitAnd(stream[pos + 2], 224) = 224
         /\ frameLength(SubSeq(stream, pos + 1, pos + 4)).err = NoErr
         /\ pos + frameLength(SubSeq(stream, pos + 1, pos + 4)).len <= Len(stream)
         /\ ValidFrames(stream, pos + frameLength(SubSeq(stream, pos + 1, pos + 4)).len)

CeilDiv(n, d) == (n + d - 1) \div d

\* C20: for an input of N bytes of contiguous valid frames and a target
\* chunk size T, with the reservoir argument 2048 of the command line, the
\* chunker has emitted exactly ceil(N/T) chunks when it returns io.EOF.
C20_ChunkCount ==
    (/\ cfg.reservoirSize = 2048
     /\ cfg.chunkSize > 0
     /\ src.end = EOF
     /\ ValidFrames(src.stream, 0)
     /\ ret.err = EOF)
    => Len(out) = CeilDiv(Len(src.stream), cfg.chunkSize)


(***************************************************************************)
(* Frame boundaries of the MP3 chunks (SpecMP3).                           *)
(***************************************************************************)
\* C21: every chunk the MP3 chunker emits, the first and every later one,
\* starts at a frame boundary: its first 4 bytes are a header frameLength
\* accepts.  Stated for targets above the reservoir capacity; at or below
\* it the chunks are the reservoir itself, over and over (C2).
C21_ChunksStartAtFrames ==
    cfg.chunkSize > mp3.reservoirCap =>
        \A k \in 1..Len(out) :
            /\ Len(out[k]) >= 4
            /\ frameLength(SubSeq(out[k], 1, 4)).err = NoErr

(***************************************************************************)
(* The range of frameLength (SpecFrame).                                   *)
(***************************************************************************)
\* the header h with bitrate index i in place of its own
WithBitrate(h, i) == <<h[1], h[2], (h[3] % 16) + 16 * i, h[4]>>

\* C22: for every header frameLength accepts, the length returned lies
\* between minFrameSize (24) and maxFrameSize (1732), so the body length
\* frameLength - 4 that Next reads is not negative, and no header that
\* differs only by a lower bitrate index has a greater length.
C22_LengthInRange ==
    (flRet.done /\ flRet.err = NoErr) =>
        /\ flRet.len >= minFrameSize
        /\ flRet.len <= maxFrameSize
        /\ flRet.len - 4 >= 0
        /\ \A i \in 1..(BitrateIndex(hdr) - 1) :
              /\ frameLength(WithBitrate(hdr, i)).err = NoErr
              /\ frameLength(WithBitrate(hdr, i)).len <= flRet.len

\* the longest frame there is has been measured (MPEG-1, 320 kbit/s, 32 kHz,
\* padded), above the 13 lower bitrates of its version and sample rate
C22_Witness ==
    /\ flRet.done
    /\ flRet.err = NoErr
    /\ hdr = <<255, 250, 234, 0>>
    /\ BitrateIndex(hdr) = 14
    /\ flRet.len = 1441

(***************************************************************************)
(* Resynchronization of the MP3 chunker (SpecMP3).                         *)
(***************************************************************************)
\* the offsets of the stream at which a header accepted by frameLength starts
ValidHeaderOffsets ==
    {i \in 0..(Len(src.stream) - 4) :
        frameLength(SubSeq(src.stream, i + 1, i + 4)).err = NoErr}

\* the lowest of them
FirstValidHeader == CHOOSE i \in ValidHeaderOffsets : \A j \in ValidHeaderOffsets : i <= j

\* C23: resynchronization skips no candidate: the first frame of the first
\* chunk is the frame whose header is the valid header at the lowest offset
\* of the stream, also when that header starts within the 3 bytes after a
\* 0xFF that was a false sync.
C23_LowestHeaderFound ==
    (cfg.chunkSize > 0 /\ Len(out) >= 1) =>
        LET n == frameLength(SubSeq(src.stream, FirstValidHeader + 1,
                                    FirstValidHeader + 4)).len
        IN  /\ Len(out[1]) >= n
            /\ SubSeq(out[1], 1, n)
                 = SubSeq(src.stream, FirstValidHeader + 1, FirstValidHeader + n)

(***************************************************************************)
(* The audio slice of a chunk of the pooled WAV chunker (SpecWAV).         *)
(***************************************************************************)
\* the audio bytes of the chunk the step returns
SliceRead == Len(ret'.chunk) - wav'.dataStart

\* the declared audio bytes that were left when the step began
LeftBefore == wav'.dataSize - (wav'.bytesRead - SliceRead - wav'.dataStart)

\* C24: the audio slice of every chunk is max(targetSize - headerLength,
\* 1024) bytes, capped to the declared audio bytes left, for every header
\* length; stated for pulls of a chunker that was not closed, from a source
\* that holds the whole declared payload.
C24_SliceSize ==
    [][(/\ pulls' = pulls + 1
        /\ ~wav.closed
        /\ ret'.err = NoErr /\ ~ret'.nil
        /\ Len(src.stream) >= wav'.dataStart + wav'.dataSize)
       => SliceRead = Min(Max(wav'.targetSize - wav'.dataStart, minChunkSize),
                          LeftBefore)]_vars

(***************************************************************************)
(* A source that ends inside the declared audio (SpecWAV).                 *)
(***************************************************************************)
\* the audio bytes the step consumed from the source
AudioConsumed == src'.pos - Max(src.pos, wav'.dataStart)

\* the step is a pull, by a chunker that is open, that consumed audio bytes
\* and reached the end of a source shorter than the declared data size
EndsInsideAudio ==
    /\ pulls' = pulls + 1
    /\ ~wav.closed /\ wav.err = NoErr
    /\ ~src.closed /\ src.end = EOF
    /\ wav'.dataStart > 0
    /\ Len(src.stream) < wav'.dataStart + wav'.dataSize
    /\ src'.pos = Len(src.stream)
    /\ AudioConsumed > 0

\* C25: when the source ends after delivering some but not all of the
\* declared audio, the pull that reads its last audio bytes returns a WAV
\* chunk holding them, with a nil error: the partial audio is not dropped
\* and no truncation error is returned.
C25_PartialAudioFlushed ==
    [][EndsInsideAudio =>
          /\ ret'.err = NoErr
          /\ ~ret'.nil
          /\ Len(ret'.chunk) = wav'.dataStart + AudioConsumed]_vars

(***************************************************************************)
(* The cap on the header prefix (SpecParse).                               *)
(***************************************************************************)
\* C26: whenever parseWAVHeader succeeds, the header prefix it accumulated
\* is at most maxHeaderSize (8 MiB) long.
C26_HeaderWithinCap ==
    (parse.done /\ parse.err = NoErr) => parse.len <= maxHeaderSize

(***************************************************************************)
(* The header prefix of the pooled WAV chunker, once parsed (SpecWAV).     *)
(***************************************************************************)
\* the first h bytes of s with the RIFF size field (offsets 4-7) and the
\* data-size field (the 4 bytes at offset dso) blanked
SizesBlanked(s, h, dso) ==
    Overlay(Overlay(SubSeq(s, 1, h), 4, <<0, 0, 0, 0>>), dso, <<0, 0, 0, 0>>)

\* C27: once the data chunk is located, a pull that returns a chunk leaves
\* the stored header prefix as it was, and the first headerLength bytes of
\* the chunk are the first headerLength bytes of the input stream, at every
\* offset but those of the RIFF size field and of the data-size field.
C27_HeaderFixed ==
    [][(pulls' = pulls + 1 /\ ret'.err = NoErr /\ ~ret'.nil) =>
          /\ wav.headerSent => Bytes(wav'.header) = Bytes(wav.header)
          /\ Len(ret'.chunk) >= wav'.dataStart
          /\ SizesBlanked(ret'.chunk, wav'.dataStart, wav'.dataSizeOffset)
                 = SizesBlanked(src.stream, wav'.dataStart, wav'.dataSizeOffset)]_vars

(***************************************************************************)
(* The frames of an MP3 chunk (SpecMP3).                                   *)
(***************************************************************************)
RECURSIVE LastFrameLen(_)
\* the length of the last frame of a concatenation of complete frames, 0 if
\* there is none
LastFrameLen(s) ==
    IF s = <<>> THEN 0
    ELSE LET n == frameLength(Upto(s, 4)).len
         IN  IF n >= Len(s) THEN n ELSE LastFrameLen(From(s, n))

\* the number of carried-over reservoir bytes that start the i-th chunk
CarriedOver(i) == IF i = 1 THEN 0 ELSE Min(Len(out[i - 1]), EffectiveCap)

\* C28: with a positive target size, every emitted chunk is the carried-over
\* reservoir followed by complete frames, each with a header frameLength
\* accepts and of the length it declares, and the chunk is shorter than the
\* target size plus the length of its last frame: accumulation stopped at
\* the first frame that brought it to the target.
C28_WholeFrames ==
    cfg.chunkSize > 0 =>
        \A i \in 1..Len(out) :
            /\ Len(out[i]) >= CarriedOver(i)
            /\ IsFrameSeq(From(out[i], CarriedOver(i)))
            /\ Len(out[i]) < cfg.chunkSize + LastFrameLen(From(out[i], CarriedOver(i)))

(***************************************************************************)
(* What a pull of the pooled WAV chunker returns with a nil error, and     *)
(* what it returns after Close (SpecWAV).                                  *)
(***************************************************************************)
\* C29: a pull of an open chunker that returns a nil error returns a chunk,
\* never (nil, nil): the chunk begins with the header prefix and holds at
\* least one audio byte after it.
C29_NilErrorHasChunk ==
    [][(pulls' = pulls + 1 /\ ~wav.closed /\ ret'.err = NoErr) =>
          /\ ~ret'.nil
          /\ Len(ret'.chunk) > wav'.dataStart
          /\ SizesBlanked(ret'.chunk, wav'.dataStart, wav'.dataSizeOffset)
                 = SizesBlanked(Bytes(wav'.header), wav'.dataStart, wav'.dataSizeOffset)]_vars

\* C30: once the chunker has been closed in the middle of the iteration (the
\* header is parsed), no later pull returns a chunk: it emits neither audio
\* without the header prefix nor anything else.
C30_NoChunkAfterClose ==
    [][(pulls' = pulls + 1 /\ wav.closed /\ wav.headerSent) => ret'.nil]_vars

(***************************************************************************)
(* The source after end-of-stream (SpecWAV).                               *)
(***************************************************************************)
\* C31: once a pull has returned io.EOF, a later pull consumes no byte of
\* the source: the position of the source stays where it was.
C31_NoReadAfterEOF ==
    [][(pulls' = pulls + 1 /\ ret.err = EOF) => src'.pos = src.pos]_vars

=============================================================================
